---- MODULE Spec2Model ----
(***************************************************************************)
(* A model of the zdns Resolver orchestrator (pkg/zdns/resolver.go, both   *)
(* the newer ExternalLookup/IterativeLookup variant and the older Lookup   *)
(* variant kept in the same file) and of the MX consumer                   *)
(* (modules/mxlookup/mx_lookup.go and its older MXLookup variant).         *)
(***************************************************************************)
EXTENDS Integers, Sequences, FiniteSets, TLC

\* ------------------------------------------------------------------------
\* Bounds of the model
\* ------------------------------------------------------------------------
MaxNameServers == 2     \* longest name-server list a caller supplies
MaxLocalAddrs == 2      \* longest LocalAddrs list a caller supplies

\* ------------------------------------------------------------------------
\* Values
\* ------------------------------------------------------------------------
NilPtr == [isNil |-> TRUE]          \* a nil pointer / nil interface value
NoErr == "nil"                      \* a nil error
EmptyServer == ""                   \* the empty dstServer argument

Variants == {"new", "old"}          \* the two InitResolver variants

defaultRetries == 1
defaultMaxDepth == 10
defaultCacheSize == 10000
defaultNameServerConfigFile == "/etc/resolv.conf"

TransportModes == {"UDPOrTCP", "UDPOnly", "TCPOnly", "BadTransport"}
IPVersionModes == {"IPv4OrIPv6", "BadIPVersion"}

NameServerUniverse == <<"s1", "s2", "s3", "s4">>
LocalAddrUniverse == <<"a1", "a2", "a3", "a4">>
DiscoveredAddr == "a0"              \* conn.LocalAddr() of the probe dial
RootServers == <<"r1", "r2">>       \* the package-level root server array
OSServers == <<"o1">>               \* nameserver lines of a populated resolv.conf

Prefix(s, k) == SubSeq(s, 1, k)

\* util.GetDefaultResolvers(): the hardcoded fallback list
GetDefaultResolvers == <<"d1", "d2">>

\* GetDNSServers(path): the servers listed in the resolver configuration
\* file, or an error when the file cannot be read.  file says whether the
\* file is readable and which nameserver entries it holds (possibly none).
GetDNSServers(file) ==
    IF ~file.readable
    THEN [ns |-> <<>>, err |-> "error reading DNS config file"]
    ELSE [ns |-> file.servers, err |-> NoErr]

ResolvConfFiles ==
    {[readable |-> FALSE, servers |-> <<>>],
     [readable |-> TRUE, servers |-> <<>>],
     [readable |-> TRUE, servers |-> OSServers]}

\* transportMode.isValid / IPVersionMode.IsValid
transportModeIsValid(m) == m \in {"UDPOrTCP", "UDPOnly", "TCPOnly"}
ipVersionModeIsValid(m) == m \in {"IPv4OrIPv6"}

\* ------------------------------------------------------------------------
\* ResolverConfig
\* ------------------------------------------------------------------------
ConfigCache == [isNil |-> FALSE, id |-> "configCache", cap |-> defaultCacheSize]
\* blacklist.New(): the (initially empty) blacklist object of the configuration
ConfigBlacklist == [isNil |-> FALSE, id |-> "configBlacklist"]

\* isValid without the check of line 84
isValid_NoCacheCheck(rc) ==
    IF ~transportModeIsValid(rc.TransportMode)
    THEN [ok |-> FALSE, reason |-> "invalid transport mode"]
    ELSE IF ~ipVersionModeIsValid(rc.IPVersionMode)
    THEN [ok |-> FALSE, reason |-> "invalid ip version mode"]
    ELSE [ok |-> TRUE, reason |-> ""]

\* ResolverConfig.isValid
isValid(rc) ==
    IF ~transportModeIsValid(rc.TransportMode)
    THEN [ok |-> FALSE, reason |-> "invalid transport mode"]
    ELSE IF ~ipVersionModeIsValid(rc.IPVersionMode)
    THEN [ok |-> FALSE, reason |-> "invalid ip version mode"]
    ELSE IF (~rc.Cache.isNil) /\ rc.CacheSize # 0
    THEN [ok |-> FALSE, reason |-> "cannot use both cache and cacheSize"]
    ELSE [ok |-> TRUE, reason |-> ""]

\* NewResolverConfig()
NewResolverConfig ==
    [Cache |-> ConfigCache, CacheSize |-> 0,
     TransportMode |-> "UDPOrTCP", IPVersionMode |-> "IPv4OrIPv6",
     ShouldRecycleSockets |-> TRUE,
     LocalAddrs |-> <<>>, LocalAddr |-> <<>>,
     IsIterative |-> FALSE, LookupAllNameServers |-> FALSE,
     NameServers |-> "cfg",
     Blacklist |-> ConfigBlacklist,
     Retries |-> defaultRetries, MaxDepth |-> defaultMaxDepth]

\* The configurations a caller builds.  The name-server slice of the
\* configuration is the heap slice "cfg"; LocalAddrs is the field of the
\* newer variant, LocalAddr (one address, or empty) of the older one.
Configs(v) ==
    [Cache : {NilPtr, ConfigCache}, CacheSize : {0, 5},
     TransportMode : TransportModes, IPVersionMode : IPVersionModes,
     ShouldRecycleSockets : BOOLEAN,
     LocalAddrs : IF v = "new"
                  THEN {Prefix(LocalAddrUniverse, k) : k \in 0..MaxLocalAddrs}
                  ELSE {<<>>},
     LocalAddr : IF v = "old" THEN {<<>>, <<"a1">>} ELSE {<<>>},
     IsIterative : IF v = "old" THEN BOOLEAN ELSE {FALSE},
     LookupAllNameServers : IF v = "old" THEN BOOLEAN ELSE {FALSE},
     NameServers : {"cfg"},
     Blacklist : {ConfigBlacklist},
     Retries : {defaultRetries}, MaxDepth : {defaultMaxDepth}]

\* What the environment does during one InitResolver: the probe dial, the
\* UDP bind, the resolver configuration file, and the random choice.
Envs ==
    [dial : {"ok", "fail"}, listen : {"ok", "fail"},
     file : ResolvConfFiles, rnd : 1..MaxLocalAddrs]

NoEffects ==
    [dialed |-> FALSE, probeConn |-> "none", listened |-> FALSE,
     cachesCreated |-> 0]

\* ------------------------------------------------------------------------
\* InitResolver, newer variant (resolver.go 146-247)
\* ------------------------------------------------------------------------
\* the Resolver keeps no blacklist
resolverBlacklist_Nil(config) == NilPtr

\* blacklist: config.Blacklist
resolverBlacklist(config) == config.Blacklist

\* the Resolver retries the default number of times
resolverRetries_Default(config) == defaultRetries

\* retries: config.Retries
resolverRetries(config) == config.Retries

\* the Resolver walks to the default depth
resolverMaxDepth_Default(config, copied) == IF copied THEN defaultMaxDepth ELSE 0

\* r.maxDepth = config.MaxDepth; the older variant copies it only for an
\* iterative Resolver and leaves the zero value otherwise
resolverMaxDepth(config, copied) == IF copied THEN config.MaxDepth ELSE 0

\* usingUDP := r.transportMode == UDPOrTCP || r.transportMode == UDPOnly
usingUDP(mode) == mode \in {"UDPOrTCP", "UDPOnly"}

\* usingTCP without the fallback mode
usingTCP_TCPOnly(mode) == mode = "TCPOnly"

\* usingTCP := r.transportMode == UDPOrTCP || r.transportMode == TCPOnly
usingTCP(mode) == mode \in {"UDPOrTCP", "TCPOnly"}

InitResolverNew(config, sl, env) ==
    LET valid == isValid(config) IN
    IF ~valid.ok
    THEN [r |-> NilPtr, err |-> valid.reason, slices |-> sl, fx |-> NoEffects]
    ELSE
    LET c == IF config.CacheSize # 0
             THEN [isNil |-> FALSE, id |-> "fresh", cap |-> config.CacheSize]
             ELSE IF ~config.Cache.isNil THEN config.Cache
             ELSE [isNil |-> FALSE, id |-> "fresh", cap |-> defaultCacheSize]
        fx1 == [NoEffects EXCEPT !.cachesCreated =
                   IF config.CacheSize # 0 \/ config.Cache.isNil THEN 1 ELSE 0]
        \* the struct literal does not set localAddr
        localAddr0 == <<>>
        needDial == Len(localAddr0) = 0
    IN
    IF needDial /\ env.dial = "fail"
    THEN [r |-> NilPtr, err |-> "unable to find default IP address to open socket",
          slices |-> sl, fx |-> [fx1 EXCEPT !.dialed = TRUE]]
    ELSE
    LET localAddr == IF needDial THEN <<DiscoveredAddr>>
                     ELSE <<config.LocalAddrs[((env.rnd - 1) % Len(config.LocalAddrs)) + 1]>>
        fx2 == IF needDial
               THEN [fx1 EXCEPT !.dialed = TRUE, !.probeConn = "closed"]
               ELSE fx1
    IN
    IF config.ShouldRecycleSockets /\ env.listen = "fail"
    THEN [r |-> NilPtr, err |-> "unable to create UDP connection",
          slices |-> sl, fx |-> [fx2 EXCEPT !.listened = TRUE]]
    ELSE
    LET fx3 == IF config.ShouldRecycleSockets
               THEN [fx2 EXCEPT !.listened = TRUE] ELSE fx2
        conn == IF config.ShouldRecycleSockets
                THEN [isNil |-> FALSE, state |-> "open", addr |-> localAddr,
                      closeErrLogged |-> FALSE, from |-> "ListenUDP"]
                ELSE NilPtr
        \* make + copy of config.ExternalNameServers; copy() always copies
        \* len(config.ExternalNameServers) elements, so the log.Fatal of
        \* line 229 is never taken
        sl1 == [sl EXCEPT !["copy"] = sl[config.NameServers]]
        useOS == Len(sl1["copy"]) = 0
        got == GetDNSServers(env.file)
        ns == IF got.err # NoErr THEN GetDefaultResolvers ELSE got.ns
        sl2 == IF useOS THEN [sl1 EXCEPT !["os"] = ns] ELSE sl1
    IN
    [r |-> [isNil |-> FALSE, variant |-> "new", cache |-> c,
            conn |-> conn, localAddr |-> localAddr,
            udpClient |-> usingUDP(config.TransportMode),
            tcpClient |-> usingTCP(config.TransportMode),
            transportMode |-> config.TransportMode,
            shouldRecycleSockets |-> config.ShouldRecycleSockets,
            isIterative |-> FALSE, lookupAllNameServers |-> FALSE,
            blacklist |-> resolverBlacklist(config),
            retries |-> resolverRetries(config),
            maxDepth |-> resolverMaxDepth(config, TRUE),
            externalNameServers |-> IF useOS THEN "os" ELSE "copy",
            rootNameServers |-> "root",
            nameServers |-> "none"],
     err |-> NoErr, slices |-> sl2, fx |-> fx3]

\* ------------------------------------------------------------------------
\* InitResolver, older variant (resolver.go 446-548)
\* ------------------------------------------------------------------------
InitResolverOld(config, sl, env) ==
    LET valid == isValid(config) IN
    IF ~valid.ok
    THEN [r |-> NilPtr, err |-> valid.reason, slices |-> sl, fx |-> NoEffects]
    ELSE
    LET c == IF config.CacheSize # 0
             THEN [isNil |-> FALSE, id |-> "fresh", cap |-> config.CacheSize]
             ELSE IF ~config.Cache.isNil THEN config.Cache
             ELSE [isNil |-> FALSE, id |-> "fresh", cap |-> defaultCacheSize]
        fx1 == [NoEffects EXCEPT !.cachesCreated =
                   IF config.CacheSize # 0 \/ config.Cache.isNil THEN 1 ELSE 0]
        \* localAddr: config.LocalAddr
        localAddr0 == config.LocalAddr
        needDial == Len(localAddr0) = 0
    IN
    IF needDial /\ env.dial = "fail"
    THEN [r |-> NilPtr, err |-> "unable to find default IP address to open socket",
          slices |-> sl, fx |-> [fx1 EXCEPT !.dialed = TRUE]]
    ELSE
    LET localAddr == IF needDial THEN <<DiscoveredAddr>> ELSE localAddr0
        fx2 == IF needDial
               THEN [fx1 EXCEPT !.dialed = TRUE, !.probeConn = "closed"]
               ELSE fx1
    IN
    IF config.ShouldRecycleSockets /\ env.listen = "fail"
    THEN [r |-> NilPtr, err |-> "unable to create UDP connection",
          slices |-> sl, fx |-> [fx2 EXCEPT !.listened = TRUE]]
    ELSE
    LET fx3 == IF config.ShouldRecycleSockets
               THEN [fx2 EXCEPT !.listened = TRUE] ELSE fx2
        conn == IF config.ShouldRecycleSockets
                THEN [isNil |-> FALSE, state |-> "open", addr |-> localAddr,
                      closeErrLogged |-> FALSE, from |-> "ListenUDP"]
                ELSE NilPtr
        \* nameServers: config.NameServers shares the caller's slice
        empty == Len(sl[config.NameServers]) = 0
        got == GetDNSServers(env.file)
        ns == IF got.err # NoErr THEN GetDefaultResolvers ELSE got.ns
        useOS == (~config.IsIterative) /\ empty
        sl1 == IF useOS THEN [sl EXCEPT !["os"] = ns] ELSE sl
    IN
    [r |-> [isNil |-> FALSE, variant |-> "old", cache |-> c,
            conn |-> conn, localAddr |-> localAddr,
            udpClient |-> usingUDP(config.TransportMode),
            tcpClient |-> usingTCP(config.TransportMode),
            transportMode |-> config.TransportMode,
            shouldRecycleSockets |-> config.ShouldRecycleSockets,
            isIterative |-> config.IsIterative,
            blacklist |-> resolverBlacklist(config),
            retries |-> resolverRetries(config),
            maxDepth |-> resolverMaxDepth(config, config.IsIterative),
            lookupAllNameServers |->
                IF config.IsIterative THEN config.LookupAllNameServers ELSE FALSE,
            externalNameServers |-> "none",
            rootNameServers |-> "none",
            nameServers |-> IF config.IsIterative /\ empty THEN "root"
                            ELSE IF useOS THEN "os"
                            ELSE config.NameServers],
     err |-> NoErr, slices |-> sl1, fx |-> fx3]

\* InitResolver with the probe dial made before the configuration is checked
InitResolver_DialBeforeValidation(v, config, sl, env) ==
    LET o == IF v = "new" THEN InitResolverNew(config, sl, env)
             ELSE InitResolverOld(config, sl, env)
    IN IF isValid(config).ok THEN o
       ELSE [o EXCEPT !.fx = [NoEffects EXCEPT !.dialed = TRUE,
                                               !.probeConn = "closed"]]

\* InitResolver that keeps the probe connection as the Resolver's socket
\* instead of closing it
InitResolver_KeepsProbe(v, config, sl, env) ==
    LET o == IF v = "new" THEN InitResolverNew(config, sl, env)
             ELSE InitResolverOld(config, sl, env)
    IN IF o.r.isNil \/ o.fx.probeConn = "none" THEN o
       ELSE [o EXCEPT !.fx.probeConn = "open",
                      !.r.conn = [isNil |-> FALSE, state |-> "open",
                                  addr |-> o.r.localAddr,
                                  closeErrLogged |-> FALSE, from |-> "Dial"]]

\* InitResolver that always creates its own cache of the default size
InitResolver_AlwaysFreshCache(v, config, sl, env) ==
    LET o == IF v = "new" THEN InitResolverNew(config, sl, env)
             ELSE InitResolverOld(config, sl, env)
    IN IF o.r.isNil THEN o
       ELSE [o EXCEPT !.r.cache = [isNil |-> FALSE, id |-> "fresh",
                                   cap |-> defaultCacheSize],
                      !.fx.cachesCreated = 1]

InitResolver(v, config, sl, env) ==
    IF v = "new" THEN InitResolverNew(config, sl, env)
    ELSE InitResolverOld(config, sl, env)

\* ------------------------------------------------------------------------
\* The lookup client (Lookuper) and the Resolver entry points
\* ------------------------------------------------------------------------
Statuses == {"NOERROR", "TIMEOUT"}
SomeResult == [isNil |-> FALSE, id |-> "result"]
PrimaryStep == "step"

\* What a lookup client (functional or mock) may hand back from one call.
LookupOutcomes ==
    [res : {NilPtr, SomeResult}, trace : {<<>>, <<PrimaryStep>>},
     status : Statuses, err : {NoErr, "lookup error"}]

NoRet == [res |-> NilPtr, trace |-> <<>>, status |-> "none", err |-> NoErr]
NoOutcome == NoRet

\* Lookuper.DoSingleDstServerLookup / DoSingleNameserverLookup: out is what
\* the client produces; a client asked to use a connection that Close() has
\* closed cannot proceed (the documented panic).
DoSingleDstServerLookup(r, server, isIterative, out) ==
    IF (~r.conn.isNil) /\ r.conn.state = "closed"
    THEN [fatal |-> TRUE, why |-> "use of closed connection", ret |-> NoRet]
    ELSE [fatal |-> FALSE, why |-> "", ret |-> out]

\* Resolver.doLookupAllNameservers (older variant): the same four values,
\* gathered from every name server of the zone, starting from server.
doLookupAllNameservers(r, server, out) ==
    IF (~r.conn.isNil) /\ r.conn.state = "closed"
    THEN [fatal |-> TRUE, why |-> "use of closed connection", ret |-> NoRet]
    ELSE [fatal |-> FALSE, why |-> "", ret |-> out]

\* Resolver.randomExternalNameServer; pick is rand.Intn(l) + 1
randomExternalNameServer(r, sl, pick) ==
    LET l == Len(sl[r.externalNameServers]) IN
    IF l = 0
    THEN [fatal |-> TRUE, why |-> "no external name servers specified", server |-> EmptyServer]
    ELSE [fatal |-> FALSE, why |-> "", server |-> sl[r.externalNameServers][pick]]

\* Resolver.randomRootNameServer
randomRootNameServer(r, sl, pick) ==
    LET l == Len(sl[r.rootNameServers]) IN
    IF l = 0
    THEN [fatal |-> TRUE, why |-> "no root name servers specified", server |-> EmptyServer]
    ELSE [fatal |-> FALSE, why |-> "", server |-> sl[r.rootNameServers][pick]]

\* Resolver.randomNameServer (older variant)
randomNameServer(r, sl, pick) ==
    LET l == Len(sl[r.nameServers]) IN
    IF l = 0
    THEN [fatal |-> TRUE, why |-> "No name servers specified", server |-> EmptyServer]
    ELSE [fatal |-> FALSE, why |-> "", server |-> sl[r.nameServers][pick]]

\* Resolver.ExternalLookup
ExternalLookup(r, sl, dstServer, pick, out) ==
    LET chosen == IF dstServer = EmptyServer
                  THEN randomExternalNameServer(r, sl, pick)
                  ELSE [fatal |-> FALSE, why |-> "", server |-> dstServer]
    IN
    IF chosen.fatal
    THEN [fatal |-> TRUE, why |-> chosen.why, calls |-> <<>>, ret |-> NoRet]
    ELSE LET c == DoSingleDstServerLookup(r, chosen.server, FALSE, out) IN
         [fatal |-> c.fatal, why |-> c.why,
          calls |-> <<[server |-> chosen.server, iterative |-> FALSE]>>,
          ret |-> c.ret]

\* Resolver.IterativeLookup
IterativeLookup(r, sl, pick, out) ==
    LET chosen == randomRootNameServer(r, sl, pick) IN
    IF chosen.fatal
    THEN [fatal |-> TRUE, why |-> chosen.why, calls |-> <<>>, ret |-> NoRet]
    ELSE LET c == DoSingleDstServerLookup(r, chosen.server, TRUE, out) IN
         [fatal |-> c.fatal, why |-> c.why,
          calls |-> <<[server |-> chosen.server, iterative |-> TRUE]>>,
          ret |-> c.ret]

\* Resolver.Lookup (older variant): returns (*Result, error)
Lookup(r, sl, pick, out) ==
    LET chosen == randomNameServer(r, sl, pick) IN
    IF chosen.fatal
    THEN [fatal |-> TRUE, why |-> chosen.why, calls |-> <<>>,
          ret |-> [result |-> NilPtr, err |-> NoErr]]
    ELSE LET c == IF r.lookupAllNameServers
                  THEN doLookupAllNameservers(r, chosen.server, out)
                  ELSE DoSingleDstServerLookup(r, chosen.server, r.isIterative, out)
         IN
         [fatal |-> c.fatal, why |-> c.why,
          calls |-> <<[server |-> chosen.server, iterative |-> r.isIterative]>>,
          ret |-> IF c.fatal THEN [result |-> NilPtr, err |-> NoErr]
                  ELSE IF c.ret.err # NoErr
                  THEN [result |-> NilPtr, err |-> "error resolving name"]
                  ELSE [result |-> [isNil |-> FALSE, Data |-> c.ret.res,
                                    Trace |-> c.ret.trace, Status |-> c.ret.status],
                        err |-> NoErr]]

\* Close that leaves the socket as it is
Close_LeavesOpen(r) == r

\* Resolver.Close: r.conn.Close() on an already closed socket returns an
\* error, which is logged with log.Errorf and goes no further
Close(r) ==
    IF ~r.conn.isNil
    THEN [r EXCEPT !.conn.state = "closed",
                   !.conn.closeErrLogged = (r.conn.state = "closed")
                                             \/ r.conn.closeErrLogged]
    ELSE r

\* ------------------------------------------------------------------------
\* The MX consumer: values and pure parts
\* ------------------------------------------------------------------------
MaxAnswers == 2         \* most answers in a primary MX response
MaxMXCacheSize == 2     \* largest MXCacheSize configured
NumCallers == 2         \* goroutines sharing one MX module

Callers == 1..NumCallers
MXVariants == {"module", "legacy"}   \* MXLookupModule / the older MXLookup

\* Names are strings, modelled as sequences of characters.
ExchangeA == <<"a">>
ExchangeB == <<"b">>
Dot == "."
AnswerNames == {ExchangeA \o <<Dot>>, ExchangeB \o <<Dot>>}

\* strings.TrimSuffix(s, ".")
TrimSuffixDot(s) ==
    IF Len(s) > 0 /\ s[Len(s)] = Dot THEN SubSeq(s, 1, Len(s) - 1) ELSE s

\* zdns.PrefAnswer values and an answer without a preference field
PrefAnswer(n) ==
    [isPref |-> TRUE, Answer |-> n, Type |-> "MX", Class |-> "IN",
     TTL |-> IF n[1] = "a" THEN 300 ELSE 60,
     Preference |-> IF n[1] = "a" THEN 10 ELSE 20]
PlainAnswer ==
    [isPref |-> FALSE, Answer |-> <<"c">>, Type |-> "CNAME", Class |-> "IN",
     TTL |-> 30, Preference |-> 0]
AnswerValues == {PrefAnswer(n) : n \in AnswerNames} \cup {PlainAnswer}
AnswerSeqs == UNION {[1..k -> AnswerValues] : k \in 0..MaxAnswers}

\* the step of the primary MX query, in the shape of TargetedStep below
MXStep == [q |-> <<"MX">>]
\* What the primary MX query may return through the Resolver.
MXPrimaryOutcomes ==
    {[res |-> [isNil |-> FALSE, Answers |-> as], trace |-> <<MXStep>>,
      status |-> "NOERROR", err |-> NoErr] : as \in AnswerSeqs}
    \cup
    {[res |-> NilPtr, trace |-> <<MXStep>>, status |-> "TIMEOUT", err |-> NoErr],
     [res |-> NilPtr, trace |-> <<MXStep>>, status |-> "TIMEOUT", err |-> "lookup error"],
     [res |-> NilPtr, trace |-> <<>>, status |-> "NOERROR", err |-> "lookup error"],
     [res |-> [isNil |-> FALSE, Answers |-> <<PrefAnswer(ExchangeA \o <<Dot>>)>>],
      trace |-> <<MXStep>>, status |-> "TIMEOUT", err |-> NoErr],
     [res |-> NilPtr, trace |-> <<MXStep>>, status |-> "NOERROR", err |-> NoErr]}

\* CachedAddresses{}
NoAddresses == [IPv4Addresses |-> <<>>, IPv6Addresses |-> <<>>]

\* Resolver.DoTargetedLookup(name, nameServer, isIterative, lookupA, lookupAAAA):
\* the A and/or AAAA lookups of one name.  o is what the network produced.
TargetedStep(name) == [q |-> name]
IPResult(name, lookupIpv4, lookupIpv6) ==
    [isNil |-> FALSE,
     IPv4Addresses |-> IF lookupIpv4 THEN <<[fam |-> 4, of |-> name]>> ELSE <<>>,
     IPv6Addresses |-> IF lookupIpv6 THEN <<[fam |-> 6, of |-> name]>> ELSE <<>>]
TargetedOutcomes ==
    {[answered |-> TRUE, status |-> "NOERROR", traced |-> TRUE],
     [answered |-> TRUE, status |-> "NOERROR", traced |-> FALSE],
     [answered |-> FALSE, status |-> "NOERROR", traced |-> TRUE],
     [answered |-> TRUE, status |-> "TIMEOUT", traced |-> TRUE],
     [answered |-> FALSE, status |-> "TIMEOUT", traced |-> TRUE]}
DoTargetedLookup(name, lookupIpv4, lookupIpv6, o) ==
    [result |-> IF o.answered THEN IPResult(name, lookupIpv4, lookupIpv6) ELSE NilPtr,
     trace |-> IF o.traced THEN <<TargetedStep(name)>> ELSE <<>>,
     status |-> o.status]

\* cachehash.CacheHash: a bounded map in access-recency order, most recent
\* first; c is a sequence of [k, v] entries.
CacheHashIndex(c, k) ==
    IF \E i \in 1..Len(c) : c[i].k = k
    THEN CHOOSE i \in 1..Len(c) : c[i].k = k
    ELSE 0
CacheHashRemove(c, i) == SubSeq(c, 1, i - 1) \o SubSeq(c, i + 1, Len(c))
CacheHashHas(c, k) == CacheHashIndex(c, k) # 0
\* CacheHash.Get
CacheHashGet(c, k) ==
    LET i == CacheHashIndex(c, k) IN
    IF i = 0 THEN [found |-> FALSE, val |-> NoAddresses, cache |-> c]
    ELSE [found |-> TRUE, val |-> c[i].v, cache |-> <<c[i]>> \o CacheHashRemove(c, i)]
\* CacheHash.Upsert / CacheHash.Add
CacheHashUpsert(c, maxLen, k, v) ==
    LET i == CacheHashIndex(c, k) IN
    IF i # 0 THEN <<[k |-> k, v |-> v]>> \o CacheHashRemove(c, i)
    ELSE <<[k |-> k, v |-> v]>> \o
         (IF Len(c) >= maxLen /\ Len(c) > 0 THEN SubSeq(c, 1, Len(c) - 1) ELSE c)

\* lookupIPs keeping the addresses whatever the status
lookupIPsValue_IgnoreStatus(status, result) ==
    IF ~result.isNil
    THEN [IPv4Addresses |-> result.IPv4Addresses,
          IPv6Addresses |-> result.IPv6Addresses]
    ELSE NoAddresses

\* lookupIPs lines 96-101: the addresses kept from a targeted lookup
lookupIPsValue(status, result) ==
    IF status = "NOERROR" /\ ~result.isNil
    THEN [IPv4Addresses |-> result.IPv4Addresses,
          IPv6Addresses |-> result.IPv6Addresses]
    ELSE NoAddresses

\* lookupIPs without the early return of a cache hit
lookupIPsNext_AlwaysTargeted(found) == "targeted"

\* lookupIPs lines 93-95: a cache hit returns, a miss goes on to the lookup
lookupIPsNext(found) == IF found THEN "return" ELSE "targeted"

\* Lookup line 120 with "and" in place of "or"
primaryFailed_Both(status, err) == status # "NOERROR" /\ err # NoErr

\* Lookup line 120: the primary result is unusable
primaryFailed(status, err) == status # "NOERROR" \/ err # NoErr

\* the flags handed to the targeted lookup
lookupIpv4Flag(v, mod) ==
    IF v = "legacy" THEN mod.IPv4Lookup \/ ~mod.IPv6Lookup ELSE mod.IPv4Lookup
lookupIpv6Flag(v, mod) == mod.IPv6Lookup

\* Lookup filling the record with the TTL in the place of the preference
MXRecord_PreferenceFromTTL(mxAns, name, ips) ==
    [TTL |-> mxAns.TTL, Type |-> mxAns.Type, Class |-> mxAns.Class,
     Name |-> name, Preference |-> mxAns.TTL,
     IPv4Addresses |-> ips.IPv4Addresses, IPv6Addresses |-> ips.IPv6Addresses]

\* Lookup line 127: the record of one exchange
MXRecord(mxAns, name, ips) ==
    [TTL |-> mxAns.TTL, Type |-> mxAns.Type, Class |-> mxAns.Class,
     Name |-> name, Preference |-> mxAns.Preference,
     IPv4Addresses |-> ips.IPv4Addresses, IPv6Addresses |-> ips.IPv6Addresses]

\* ------------------------------------------------------------------------
\* State
\* ------------------------------------------------------------------------
VARIABLES
    variant,    \* which variant of the Resolver this program is built from
    config,     \* the caller's ResolverConfig
    slices,     \* backing arrays of the name-server slices, by owner
    resolver,   \* the *Resolver returned by InitResolver (NilPtr before/if failed)
    initErr,    \* the error returned by InitResolver
    fx,         \* side effects InitResolver performed
    phase,      \* "start", "ready" (InitResolver succeeded), "failed"
    closed,     \* Close() has been called
    proc,       \* "running", or "fatal" once log.Fatal / a panic ended the process
    lastCall,   \* the last entry-point invocation and what it did
    mxVariant,  \* which variant of the MX consumer is in use
    mxMod,      \* the MX module's options (IPv4Lookup, IPv6Lookup, MXCacheSize, IsIterative)
    CacheHash,  \* the MX name -> addresses cache
    CHmu,       \* the mutex guarding CacheHash: 0, or the caller holding it
    pc,         \* where each caller is inside Lookup / lookupIPs
    loc,        \* each caller's local variables and what it observed
    now,        \* the current time, in seconds
    acache,     \* the Answer Cache: question -> entry
    blocked,    \* the server addresses the blacklist covers
    tq,         \* the Single-Query Transport call in progress, and its last result
    it          \* the iterative walk in progress, and its last result

mvars == <<mxVariant, mxMod, CacheHash, CHmu, pc, loc>>
evars == <<now, acache, blocked, tq, it>>
rvars == <<variant, config, slices, resolver, initErr, fx, phase, closed, proc, lastCall>>

NoCall ==
    [entry |-> "none", dst |-> EmptyServer, fatal |-> FALSE, why |-> "",
     calls |-> <<>>, out |-> NoOutcome, ret |-> NoRet, afterClose |-> FALSE]

NoLocals ==
    [primary |-> NoOutcome, cache0 |-> <<>>,
     answers |-> <<>>, trace |-> <<>>, idx |-> 0, servers |-> <<>>,
     name |-> <<>>, wasCached |-> FALSE, cachedVal |-> NoAddresses, found |-> FALSE, ips |-> NoAddresses,
     secondTrace |-> <<>>, nTargeted |-> 0, tStatus |-> "none", tNil |-> FALSE,
     events |-> <<>>, ret |-> NoRet]

\* the MX module as it is while the Resolver alone is exercised
MXIdle ==
    /\ mxVariant = "module"
    /\ mxMod = [IPv4Lookup |-> TRUE, IPv6Lookup |-> FALSE, MXCacheSize |-> 1,
                IsIterative |-> FALSE]
    /\ CacheHash = <<>>
    /\ CHmu = 0
    /\ pc = [p \in Callers |-> "idle"]
    /\ loc = [p \in Callers |-> NoLocals]

\* ------------------------------------------------------------------------
\* The resolution engine: values
\* ------------------------------------------------------------------------
Questions == {"q1", "q2"}
\* an answer set: what the response is for the walk, and the TTLs of its records
AnswerSets ==
    {[kind |-> "answer", ttls |-> <<2, 1>>],
     [kind |-> "referral", ttls |-> <<2>>],
     [kind |-> "cname", ttls |-> <<1>>]}
NoAnswerSet == [kind |-> "none", ttls |-> <<>>]
NoEntry == [present |-> FALSE, answers |-> NoAnswerSet, insertedAt |-> 0, expiry |-> 0]
NoQuery ==
    [pc |-> "idle", q |-> "", server |-> "", owner |-> "none", i |-> 0, log |-> <<>>,
     status |-> "none", result |-> NoAnswerSet, fromCache |-> FALSE,
     readAt |-> 0, hadEntry |-> NoEntry, allowed |-> TRUE, lookups |-> 0,
     written |-> 0]
NoWalk ==
    [pc |-> "idle", q |-> "", depth |-> 0, steps |-> 0, tier |-> {},
     resolvingNS |-> FALSE, last |-> "none", status |-> "none",
     sawCname |-> FALSE, sawNS |-> FALSE, dialed |-> 0]
\* the engine as it is while nothing is being resolved
EngineIdle ==
    /\ now = 0
    /\ acache = [q \in Questions |-> NoEntry]
    /\ blocked = {}
    /\ tq = NoQuery
    /\ it = NoWalk

ModifiedServer == "x9"     \* what a caller later writes into its own slice

\* the value of a name-server list of the Resolver
ListOf(ref) == IF ref = "none" THEN <<>> ELSE slices[ref]

Max(a, b) == IF a >= b THEN a ELSE b

\* Configurations used to exercise the life cycle after construction: the
\* fields the entry points and Close() depend on vary, the others are as
\* NewResolverConfig() sets them.
LifecycleConfigs(v) ==
    {c \in Configs(v) :
        /\ c.Cache = NewResolverConfig.Cache
        /\ c.CacheSize = NewResolverConfig.CacheSize
        /\ c.TransportMode = NewResolverConfig.TransportMode
        /\ c.IPVersionMode = NewResolverConfig.IPVersionMode
        /\ c.LocalAddrs = NewResolverConfig.LocalAddrs
        /\ c.LocalAddr = NewResolverConfig.LocalAddr}

ResolverInitWith(cfgs) ==
    /\ variant \in Variants
    /\ config \in cfgs[variant]
    /\ \E k \in 0..MaxNameServers :
          slices = [cfg |-> Prefix(NameServerUniverse, k), copy |-> <<>>,
                    os |-> <<>>, root |-> RootServers]
    /\ resolver = NilPtr
    /\ initErr = NoErr
    /\ fx = NoEffects
    /\ phase = "start"
    /\ closed = FALSE
    /\ proc = "running"
    /\ lastCall = NoCall
    /\ MXIdle
    /\ EngineIdle

\* InitResolver(config)
DoInitResolver ==
    /\ phase = "start"
    /\ \E env \in Envs :
         LET o == InitResolver(variant, config, slices, env) IN
         /\ resolver' = o.r
         /\ initErr' = o.err
         /\ slices' = o.slices
         /\ fx' = o.fx
         /\ phase' = IF o.r.isNil THEN "failed" ELSE "ready"
    /\ UNCHANGED <<evars, mvars, variant, config, closed, proc, lastCall>>

\* r.ExternalLookup(q, dstServer)
DoExternalLookup ==
    /\ phase = "ready" /\ proc = "running" /\ variant = "new"
    /\ \E dst \in {EmptyServer, "s9"}, out \in LookupOutcomes,
          pick \in 1..Max(1, Len(ListOf(resolver.externalNameServers))) :
         LET o == ExternalLookup(resolver, slices, dst, pick, out) IN
         /\ lastCall' = [entry |-> "ExternalLookup", dst |-> dst, fatal |-> o.fatal,
                         why |-> o.why, calls |-> o.calls,
                         out |-> IF Len(o.calls) = 0 \/ o.fatal THEN NoOutcome ELSE out,
                         ret |-> o.ret, afterClose |-> closed]
         /\ proc' = IF o.fatal THEN "fatal" ELSE "running"
    /\ UNCHANGED <<evars, mvars, variant, config, slices, resolver, initErr, fx, phase, closed>>

\* r.IterativeLookup(q)
DoIterativeLookup ==
    /\ phase = "ready" /\ proc = "running" /\ variant = "new"
    /\ \E out \in LookupOutcomes,
          pick \in 1..Max(1, Len(ListOf(resolver.rootNameServers))) :
         LET o == IterativeLookup(resolver, slices, pick, out) IN
         /\ lastCall' = [entry |-> "IterativeLookup", dst |-> EmptyServer, fatal |-> o.fatal,
                         why |-> o.why, calls |-> o.calls,
                         out |-> IF Len(o.calls) = 0 \/ o.fatal THEN NoOutcome ELSE out,
                         ret |-> o.ret, afterClose |-> closed]
         /\ proc' = IF o.fatal THEN "fatal" ELSE "running"
    /\ UNCHANGED <<evars, mvars, variant, config, slices, resolver, initErr, fx, phase, closed>>

\* r.Lookup(q) (older variant)
DoLookup ==
    /\ phase = "ready" /\ proc = "running" /\ variant = "old"
    /\ \E out \in LookupOutcomes,
          pick \in 1..Max(1, Len(ListOf(resolver.nameServers))) :
         LET o == Lookup(resolver, slices, pick, out) IN
         /\ lastCall' = [entry |-> "Lookup", dst |-> EmptyServer, fatal |-> o.fatal,
                         why |-> o.why, calls |-> o.calls,
                         out |-> IF Len(o.calls) = 0 \/ o.fatal THEN NoOutcome ELSE out,
                         ret |-> o.ret, afterClose |-> closed]
         /\ proc' = IF o.fatal THEN "fatal" ELSE "running"
    /\ UNCHANGED <<evars, mvars, variant, config, slices, resolver, initErr, fx, phase, closed>>

\* r.Close()
DoClose ==
    /\ phase = "ready" /\ proc = "running"
    /\ resolver' = Close(resolver)
    /\ closed' = TRUE
    /\ UNCHANGED <<evars, mvars, variant, config, slices, initErr, fx, phase, proc, lastCall>>

\* The caller, after InitResolver has returned, overwrites an element of
\* the name-server slice it put into the ResolverConfig.
CallerModifiesConfigSlice ==
    /\ phase = "ready" /\ proc = "running"
    /\ \E i \in 1..Len(slices[config.NameServers]) :
         /\ slices[config.NameServers][i] # ModifiedServer
         /\ slices' = [slices EXCEPT ![config.NameServers][i] = ModifiedServer]
    /\ UNCHANGED <<evars, mvars, variant, config, resolver, initErr, fx, phase, closed, proc, lastCall>>

vars == <<rvars, mvars, evars>>

\* Construction only, over every configuration.
ConstructInit == ResolverInitWith([v \in Variants |-> Configs(v)])
ConstructNext == DoInitResolver
ConstructSpec == ConstructInit /\ [][ConstructNext]_vars

\* Construction followed by the life cycle of the Resolver.
ResolverInit == ResolverInitWith([v \in Variants |-> LifecycleConfigs(v)])

Next ==
    \/ DoInitResolver
    \/ DoExternalLookup
    \/ DoIterativeLookup
    \/ DoLookup
    \/ DoClose
    \/ CallerModifiesConfigSlice

Spec == ResolverInit /\ [][Next]_vars

\* ------------------------------------------------------------------------
\* The MX consumer: Lookup / DoLookup and lookupIPs / LookupIPs
\* ------------------------------------------------------------------------
MXModules(v) ==
    {m \in [IPv4Lookup : BOOLEAN, IPv6Lookup : BOOLEAN,
            MXCacheSize : 1..MaxMXCacheSize, IsIterative : BOOLEAN] :
        IF v = "module"
        THEN m.IPv4Lookup # m.IPv6Lookup
        ELSE (~m.IsIterative) /\ m.IPv4Lookup = m.IPv6Lookup}

MXEnv == [dial |-> "ok", listen |-> "ok",
          file |-> [readable |-> TRUE, servers |-> OSServers], rnd |-> 1]
MXSlices == [cfg |-> <<>>, copy |-> <<>>, os |-> <<>>, root |-> RootServers]
MXConstructed == InitResolver("new", NewResolverConfig, MXSlices, MXEnv)

\* the MX module after Init() / Initialize(), used with a Resolver built
\* from NewResolverConfig()
MXInit ==
    /\ variant = "new"
    /\ config = NewResolverConfig
    /\ slices = MXConstructed.slices
    /\ resolver = MXConstructed.r
    /\ initErr = MXConstructed.err
    /\ fx = MXConstructed.fx
    /\ phase = "ready"
    /\ closed = FALSE
    /\ proc = "running"
    /\ lastCall = NoCall
    /\ mxVariant \in MXVariants
    /\ mxMod \in MXModules(mxVariant)
    /\ CacheHash = <<>>
    /\ CHmu = 0
    /\ pc = [p \in Callers |-> "idle"]
    /\ loc = [p \in Callers |-> NoLocals]
    /\ EngineIdle

\* Lookup lines 108-122 / DoLookup lines 88-93: the primary MX query
MXLookupStartOn(p, outs, servers) ==
    /\ pc[p] \in {"idle", "done"} /\ proc = "running"
    /\ \E nameServer \in servers, out \in outs,
          pick \in 1..Max(1, Len(ListOf(resolver.externalNameServers))) :
         LET o == IF mxVariant = "module" /\ mxMod.IsIterative
                  THEN IterativeLookup(resolver, slices, pick, out)
                  ELSE ExternalLookup(resolver, slices, nameServer, pick, out)
             l0 == [NoLocals EXCEPT !.primary = o.ret, !.cache0 = CacheHash]
         IN
         IF o.fatal
         THEN /\ proc' = "fatal"
              /\ pc' = [pc EXCEPT ![p] = "dead"]
              /\ loc' = [loc EXCEPT ![p] = l0]
         ELSE IF primaryFailed(o.ret.status, o.ret.err)
         THEN /\ pc' = [pc EXCEPT ![p] = "done"]
              /\ loc' = [loc EXCEPT ![p] =
                            [l0 EXCEPT !.ret = [res |-> NilPtr, trace |-> o.ret.trace,
                                                status |-> o.ret.status,
                                                err |-> o.ret.err]]]
              /\ proc' = proc
         ELSE IF o.ret.res.isNil
         THEN \* res.Answers on a nil result: nil pointer dereference
              /\ proc' = "fatal"
              /\ pc' = [pc EXCEPT ![p] = "dead"]
              /\ loc' = [loc EXCEPT ![p] = l0]
         ELSE /\ pc' = [pc EXCEPT ![p] = "loop"]
              /\ loc' = [loc EXCEPT ![p] =
                            [l0 EXCEPT !.answers = o.ret.res.Answers,
                                       !.trace = o.ret.trace, !.idx = 1]]
              /\ proc' = proc
    /\ UNCHANGED <<evars, variant, config, slices, resolver, initErr, fx, phase, closed,
                   lastCall, mxVariant, mxMod, CacheHash, CHmu>>

\* the name server argument of Lookup: none given, or a server of the caller
MXNameServers == {EmptyServer, "s9"}
MXLookupStartWith(p, outs) == MXLookupStartOn(p, outs, MXNameServers)
MXLookupStart(p) == MXLookupStartWith(p, MXPrimaryOutcomes)

\* Lookup lines 124-135: the loop over the answers, and the return
MXLoop(p) ==
    /\ pc[p] = "loop" /\ proc = "running"
    /\ LET l == loc[p] IN
       IF l.idx > Len(l.answers)
       THEN /\ pc' = [pc EXCEPT ![p] = "done"]
            /\ loc' = [loc EXCEPT ![p].ret =
                          [res |-> [isNil |-> FALSE, Servers |-> l.servers],
                           trace |-> l.trace, status |-> "NOERROR", err |-> NoErr]]
       ELSE IF l.answers[l.idx].isPref
       THEN LET name == TrimSuffixDot(l.answers[l.idx].Answer) IN
            /\ pc' = [pc EXCEPT ![p] = "getLock"]
            /\ loc' = [loc EXCEPT ![p].name = name,
                                  ![p].wasCached = CacheHashHas(CacheHash, name),
                                  ![p].cachedVal =
                                      IF CacheHashHas(CacheHash, name)
                                      THEN CacheHash[CacheHashIndex(CacheHash, name)].v
                                      ELSE NoAddresses,
                                  ![p].nTargeted = 0,
                                  ![p].tStatus = "none", ![p].tNil = FALSE,
                                  ![p].secondTrace = <<>>]
       ELSE /\ pc' = pc
            /\ loc' = [loc EXCEPT ![p].idx = l.idx + 1]
    /\ UNCHANGED <<evars, rvars, mxVariant, mxMod, CacheHash, CHmu>>

\* Lookup with the secondary trace put in front of the trace so far
MXAppend_TraceInFront(l, ips, secondTrace, hit) ==
    [l EXCEPT !.servers = Append(l.servers, MXRecord(l.answers[l.idx], l.name, ips)),
              !.trace = secondTrace \o l.trace,
              !.idx = l.idx + 1,
              !.events = Append(l.events,
                                [name |-> l.name, wasCached |-> l.wasCached,
                                 cachedVal |-> l.cachedVal,
                                 hit |-> hit, found |-> l.found, ips |-> ips,
                                 nTargeted |-> l.nTargeted,
                                 tStatus |-> l.tStatus, tNil |-> l.tNil,
                                 trace |-> secondTrace,
                                 cachedAtReturn |-> CacheHashHas(CacheHash, l.name)])]

\* what Lookup does with the value lookupIPs returned (lines 128-132)
MXAppend(l, ips, secondTrace, hit) ==
    [l EXCEPT !.servers = Append(l.servers, MXRecord(l.answers[l.idx], l.name, ips)),
              !.trace = l.trace \o secondTrace,
              !.idx = l.idx + 1,
              !.events = Append(l.events,
                                [name |-> l.name, wasCached |-> l.wasCached,
                                 cachedVal |-> l.cachedVal,
                                 hit |-> hit, found |-> l.found, ips |-> ips,
                                 nTargeted |-> l.nTargeted,
                                 tStatus |-> l.tStatus, tNil |-> l.tNil,
                                 trace |-> secondTrace,
                                 cachedAtReturn |-> CacheHashHas(CacheHash, l.name)])]

\* lookupIPs line 88: mxMod.CHmu.Lock()
MXGetLock(p) ==
    /\ pc[p] = "getLock" /\ proc = "running"
    /\ CHmu = 0
    /\ CHmu' = p
    /\ pc' = [pc EXCEPT ![p] = "get"]
    /\ UNCHANGED <<evars, rvars, mxVariant, mxMod, CacheHash, loc>>

\* lookupIPs line 91: mxMod.CacheHash.Get(name)
MXGet(p) ==
    /\ pc[p] = "get" /\ proc = "running"
    /\ LET g == CacheHashGet(CacheHash, loc[p].name) IN
       /\ CacheHash' = g.cache
       /\ loc' = [loc EXCEPT ![p].found = g.found, ![p].ips = g.val]
    /\ pc' = [pc EXCEPT ![p] = "getUnlock"]
    /\ UNCHANGED <<evars, rvars, mxVariant, mxMod, CHmu>>

\* lookupIPs with the mutex kept across the targeted lookup
MXGetUnlock_KeepLock(p) ==
    /\ pc[p] = "getUnlock" /\ proc = "running"
    /\ IF lookupIPsNext(loc[p].found) = "return"
       THEN /\ CHmu' = 0
            /\ pc' = [pc EXCEPT ![p] = "loop"]
            /\ loc' = [loc EXCEPT ![p] = MXAppend(loc[p], loc[p].ips, <<>>, TRUE)]
       ELSE /\ CHmu' = CHmu
            /\ pc' = [pc EXCEPT ![p] = "targeted"]
            /\ loc' = loc
    /\ UNCHANGED <<evars, rvars, mxVariant, mxMod, CacheHash>>

\* lookupIPs lines 92-95: Unlock, and the return of a cached value
MXGetUnlock(p) ==
    /\ pc[p] = "getUnlock" /\ proc = "running"
    /\ CHmu' = 0
    /\ IF lookupIPsNext(loc[p].found) = "return"
       THEN /\ pc' = [pc EXCEPT ![p] = "loop"]
            /\ loc' = [loc EXCEPT ![p] = MXAppend(loc[p], loc[p].ips, <<>>, TRUE)]
       ELSE /\ pc' = [pc EXCEPT ![p] = "targeted"]
            /\ loc' = loc
    /\ UNCHANGED <<evars, rvars, mxVariant, mxMod, CacheHash>>

\* lookupIPs lines 96-101: the targeted lookup
MXTargetedWith(p, outs) ==
    /\ pc[p] = "targeted" /\ proc = "running"
    /\ \E o \in outs :
         LET t == DoTargetedLookup(loc[p].name, lookupIpv4Flag(mxVariant, mxMod),
                                   lookupIpv6Flag(mxVariant, mxMod), o)
         IN loc' = [loc EXCEPT ![p].ips = lookupIPsValue(t.status, t.result),
                               ![p].secondTrace = t.trace,
                               ![p].nTargeted = loc[p].nTargeted + 1,
                               ![p].tStatus = t.status,
                               ![p].tNil = t.result.isNil]
    /\ pc' = [pc EXCEPT ![p] = "upLock"]
    /\ UNCHANGED <<evars, rvars, mxVariant, mxMod, CacheHash, CHmu>>

MXTargeted(p) == MXTargetedWith(p, TargetedOutcomes)

\* lookupIPs line 102: mxMod.CHmu.Lock()
MXUpLock(p) ==
    /\ pc[p] = "upLock" /\ proc = "running"
    /\ CHmu = 0
    /\ CHmu' = p
    /\ pc' = [pc EXCEPT ![p] = "upsert"]
    /\ UNCHANGED <<evars, rvars, mxVariant, mxMod, CacheHash, loc>>

\* lookupIPs storing the result of a successful targeted lookup only
MXUpsert_SkipFailed(p) ==
    /\ pc[p] = "upsert" /\ proc = "running"
    /\ CacheHash' = IF loc[p].tStatus = "NOERROR"
                    THEN CacheHashUpsert(CacheHash, mxMod.MXCacheSize,
                                         loc[p].name, loc[p].ips)
                    ELSE CacheHash
    /\ pc' = [pc EXCEPT ![p] = "upUnlock"]
    /\ UNCHANGED <<evars, rvars, mxVariant, mxMod, CHmu, loc>>

\* lookupIPs line 103: mxMod.CacheHash.Upsert(name, retv) (Add in the older variant)
MXUpsert(p) ==
    /\ pc[p] = "upsert" /\ proc = "running"
    /\ CacheHash' = CacheHashUpsert(CacheHash, mxMod.MXCacheSize, loc[p].name, loc[p].ips)
    /\ pc' = [pc EXCEPT ![p] = "upUnlock"]
    /\ UNCHANGED <<evars, rvars, mxVariant, mxMod, CHmu, loc>>

\* lookupIPs lines 104-105: Unlock and return
MXUpUnlock(p) ==
    /\ pc[p] = "upUnlock" /\ proc = "running"
    /\ CHmu' = 0
    /\ pc' = [pc EXCEPT ![p] = "loop"]
    /\ loc' = [loc EXCEPT ![p] = MXAppend(loc[p], loc[p].ips, loc[p].secondTrace, FALSE)]
    /\ UNCHANGED <<evars, rvars, mxVariant, mxMod, CacheHash>>

MXStep1(p) ==
    \/ MXLoop(p)
    \/ MXGetLock(p)
    \/ MXGet(p)
    \/ MXGetUnlock(p)
    \/ MXTargeted(p)
    \/ MXUpLock(p)
    \/ MXUpsert(p)
    \/ MXUpUnlock(p)

\* One caller issuing MX lookups one after the other.
SeqCaller == CHOOSE p \in Callers : \A q \in Callers : p <= q
MXSeqNext == MXLookupStart(SeqCaller) \/ MXStep1(SeqCaller)
MXSeqSpec == MXInit /\ [][MXSeqNext]_vars

\* ------------------------------------------------------------------------
\* The resolution engine: Answer Cache, Destination Filter, Single-Query
\* Transport and Iterative Descent, driven by the fields InitResolver
\* copies into the Resolver (blacklist, retries, transportMode and the
\* clients, maxDepth)
\* ------------------------------------------------------------------------
MaxRetries == 1         \* largest retry count a caller configures
MaxWalkDepth == 2       \* largest maxDepth a caller configures
MaxTime == 2            \* how far the clock runs

RECURSIVE MinTTL(_)
\* the minimum TTL among the records of an answer set
MinTTL(ttls) ==
    IF Len(ttls) = 1 THEN ttls[1]
    ELSE LET m == MinTTL(Tail(ttls)) IN IF ttls[1] <= m THEN ttls[1] ELSE m

\* the Answer Cache returning whatever it stores, expired or not
AnswerCacheGet_NoExpiry(c, q, t) ==
    [found |-> c[q].present, entry |-> c[q]]

\* Answer Cache get(key): an entry is a hit until the current time exceeds
\* its expiry instant
AnswerCacheGet(c, q, t) ==
    [found |-> c[q].present /\ t <= c[q].expiry, entry |-> c[q]]

\* Answer Cache put(key, answerSet): most recent write wins; the entry
\* expires at insertion time plus the minimum TTL of the stored records
AnswerCachePut(c, q, answers, t) ==
    [c EXCEPT ![q] = [present |-> TRUE, answers |-> answers, insertedAt |-> t,
                      expiry |-> t + MinTTL(answers.ttls)]]

\* Destination Filter allowed(ip), on the blacklist the Resolver holds
allowed(r, blk, server) == r.blacklist.isNil \/ server \notin blk

\* Single-Query Transport, up to the first wire attempt: the cache is
\* consulted first, then the Destination Filter
TransportBegin(r, c, blk, t, q, server, owner) ==
    LET g == AnswerCacheGet(c, q, t)
        ok == allowed(r, blk, server)
        base == [NoQuery EXCEPT !.q = q, !.server = server, !.owner = owner,
                                !.readAt = t, !.hadEntry = g.entry, !.allowed = ok]
    IN IF g.found
       THEN [base EXCEPT !.pc = "done", !.status = "NOERROR",
                         !.result = g.entry.answers, !.fromCache = TRUE]
       ELSE IF ~ok
       THEN [base EXCEPT !.pc = "done", !.status = "BLACKLISTED"]
       ELSE [base EXCEPT !.pc = "attempt", !.lookups = 1]

\* what one wire attempt over proto may come back with
AttemptOutcomes(proto) ==
    {[kind |-> "answer", answers |-> a] : a \in AnswerSets}
    \cup {[kind |-> "timeout", answers |-> NoAnswerSet],
          [kind |-> "servfail", answers |-> NoAnswerSet]}
    \cup (IF proto = "udp"
          THEN {[kind |-> "truncated", answers |-> NoAnswerSet]} ELSE {})

\* the transport after one attempt over proto came back with out
AfterAttempt(r, t, proto, out) ==
    LET t1 == [t EXCEPT !.log = Append(t.log, [proto |-> proto, server |-> t.server,
                                                q |-> t.q, out |-> out.kind])]
    IN CASE out.kind = "answer" ->
              [t1 EXCEPT !.pc = "done", !.status = "NOERROR",
                         !.result = out.answers, !.written = t.written + 1]
         [] out.kind = "servfail" ->
              [t1 EXCEPT !.pc = "done", !.status = "SERVFAIL"]
         [] out.kind = "timeout" ->
              IF t.i < r.retries
              THEN [t1 EXCEPT !.pc = "attempt", !.i = t.i + 1]
              ELSE [t1 EXCEPT !.pc = "done", !.status = "TIMEOUT"]
         [] out.kind = "truncated" ->
              IF r.transportMode = "UDPOrTCP"
              THEN [t1 EXCEPT !.pc = "tcp"]
              ELSE [t1 EXCEPT !.pc = "done", !.status = "TRUNCATED"]

EngineServers == {RootServers[i] : i \in 1..Len(RootServers)} \cup {"z1"}
NextTier == {"z1"}      \* the servers of the zone a referral points to
BlockedSets == {{}, {"z1"}, {RootServers[1]}, {RootServers[i] : i \in 1..Len(RootServers)}}

\* a Resolver built by InitResolver from one of the configurations cfgs,
\* with one of the blacklists blks
EngineInitWith(cfgs, blks) ==
    /\ variant \in Variants
    /\ config \in cfgs[variant]
    /\ LET o == InitResolver(variant, config, MXSlices, MXEnv) IN
       /\ slices = o.slices
       /\ resolver = o.r
       /\ initErr = o.err
       /\ fx = o.fx
    /\ phase = "ready"
    /\ closed = FALSE
    /\ proc = "running"
    /\ lastCall = NoCall
    /\ MXIdle
    /\ now = 0
    /\ acache = [q \in Questions |-> NoEntry]
    /\ blocked \in blks
    /\ tq = NoQuery
    /\ it = NoWalk

\* query(question, serverAddress) issued by a caller for one server
TransportQuery ==
    /\ proc = "running"
    /\ tq.pc \in {"idle", "done"} /\ it.pc \in {"idle", "done"}
    /\ \E q \in Questions, server \in EngineServers :
         tq' = TransportBegin(resolver, acache, blocked, now, q, server, "caller")
    /\ UNCHANGED <<rvars, mvars, now, acache, blocked, it>>

\* one wire attempt: over UDP when the Resolver has a UDP client, over
\* TCP otherwise
TransportAttempt ==
    /\ proc = "running"
    /\ tq.pc = "attempt"
    /\ LET proto == IF resolver.udpClient THEN "udp" ELSE "tcp" IN
       \E out \in AttemptOutcomes(proto) :
         /\ tq' = AfterAttempt(resolver, tq, proto, out)
         /\ acache' = IF out.kind = "answer"
                      THEN AnswerCachePut(acache, tq.q, out.answers, now)
                      ELSE acache
    /\ UNCHANGED <<rvars, mvars, now, blocked, it>>

\* the TCP retry of a truncated UDP response, through the TCP client
TransportTCPFallback ==
    /\ proc = "running"
    /\ tq.pc = "tcp"
    /\ IF ~resolver.tcpClient
       THEN \* r.tcpClient is nil: nil pointer dereference
            /\ proc' = "fatal"
            /\ UNCHANGED <<tq, acache>>
       ELSE \E out \in AttemptOutcomes("tcp") :
            /\ tq' = AfterAttempt(resolver, tq, "tcp", out)
            /\ acache' = IF out.kind = "answer"
                         THEN AnswerCachePut(acache, tq.q, out.answers, now)
                         ELSE acache
            /\ proc' = proc
    /\ UNCHANGED <<variant, config, slices, resolver, initErr, fx, phase, closed,
                   lastCall, mvars, now, blocked, it>>

\* a second passes
Tick ==
    /\ proc = "running"
    /\ now < MaxTime
    /\ now' = now + 1
    /\ UNCHANGED <<rvars, mvars, acache, blocked, tq, it>>

\* the servers an iterative walk starts from
WalkRoots ==
    LET l == IF variant = "new" THEN ListOf(resolver.rootNameServers)
             ELSE ListOf(resolver.nameServers)
    IN {l[i] : i \in 1..Len(l)}

\* Start: current-zone-servers = the root servers, depth = 0
WalkStart ==
    /\ proc = "running"
    /\ tq.pc \in {"idle", "done"} /\ it.pc \in {"idle", "done"}
    /\ variant = "new" \/ resolver.isIterative
    /\ \E q \in Questions :
         it' = [NoWalk EXCEPT !.pc = "step", !.q = q, !.tier = WalkRoots]
    /\ UNCHANGED <<rvars, mvars, now, acache, blocked, tq>>

\* Query step: one Single-Query Transport call against a server of the
\* current tier, or the end of the walk when the depth budget is used up
WalkQuery ==
    /\ proc = "running"
    /\ it.pc = "step"
    /\ IF it.depth >= resolver.maxDepth
       THEN /\ it' = [it EXCEPT !.pc = "done", !.status = "ITERATION_LIMIT"]
            /\ tq' = tq
       ELSE \E server \in it.tier :
            /\ tq' = TransportBegin(resolver, acache, blocked, now, it.q, server, "walk")
            /\ it' = [it EXCEPT !.pc = "wait", !.steps = it.steps + 1]
    /\ UNCHANGED <<rvars, mvars, now, acache, blocked>>

\* the name a walk turns to: the alias of a CNAME, or the NS name to resolve
OtherQuestion(q) == CHOOSE x \in Questions : x # q

\* Referral / Answer / CNAME indirection / terminal failure
WalkResult ==
    /\ proc = "running"
    /\ it.pc = "wait" /\ tq.pc = "done"
    /\ LET w == [it EXCEPT !.dialed = it.dialed + Len(tq.log),
                           !.last = IF tq.status = "NOERROR"
                                    THEN tq.result.kind ELSE "failure"]
       IN
       IF tq.status # "NOERROR"
       THEN it' = [w EXCEPT !.pc = "done", !.status = tq.status]
       ELSE IF tq.result.kind = "answer"
       THEN IF it.resolvingNS
            THEN \* the NS name is resolved: on to the servers it names
                 it' = [w EXCEPT !.pc = "step", !.resolvingNS = FALSE,
                                 !.q = OtherQuestion(it.q),
                                 !.tier = NextTier, !.depth = it.depth + 1]
            ELSE it' = [w EXCEPT !.pc = "done", !.status = "NOERROR"]
       ELSE IF tq.result.kind = "cname"
       THEN it' = [w EXCEPT !.pc = "step", !.depth = it.depth + 1,
                            !.q = OtherQuestion(it.q), !.sawCname = TRUE]
       ELSE \E glue \in BOOLEAN :
            IF glue
            THEN it' = [w EXCEPT !.pc = "step", !.tier = NextTier,
                                 !.depth = it.depth + 1]
            ELSE \* the NS names have to be resolved first, by the same engine
                 it' = [w EXCEPT !.pc = "step", !.resolvingNS = TRUE,
                                 !.q = OtherQuestion(it.q),
                                 !.sawNS = TRUE, !.tier = WalkRoots,
                                 !.depth = it.depth + 1]
    /\ UNCHANGED <<rvars, mvars, now, acache, blocked, tq>>

\* Single queries by a caller: NewResolverConfig() with the retry count
\* and the transport mode the caller chose.
TransportConfigs ==
    {[NewResolverConfig EXCEPT !.Retries = k, !.TransportMode = m] :
        k \in 0..MaxRetries, m \in {"UDPOrTCP", "UDPOnly", "TCPOnly"}}
TransportInit ==
    EngineInitWith([v \in Variants |-> TransportConfigs], {{}, {"z1"}})
TransportNext ==
    \/ TransportQuery
    \/ TransportAttempt
    \/ TransportTCPFallback
    \/ Tick
TransportSpec == TransportInit /\ [][TransportNext]_vars

\* Iterative walks: NewResolverConfig() with the depth the caller chose
\* (and IsIterative set, for the older variant).
WalkConfigs(v) ==
    {[NewResolverConfig EXCEPT !.MaxDepth = d, !.IsIterative = (v = "old")] :
        d \in 1..MaxWalkDepth}
WalkInit == EngineInitWith([v \in Variants |-> WalkConfigs(v)], BlockedSets)
WalkNext ==
    \/ WalkStart
    \/ WalkQuery
    \/ WalkResult
    \/ TransportAttempt
    \/ TransportTCPFallback
WalkSpec == WalkInit /\ [][WalkNext]_vars

\* Several callers sharing one MX module, each running one Lookup whose
\* primary answer names one exchange (or fails).
MXConcOutcomes ==
    {o \in MXPrimaryOutcomes :
        IF o.status = "NOERROR" /\ o.err = NoErr /\ ~o.res.isNil
        THEN o.res.Answers = <<PrefAnswer(ExchangeA \o <<Dot>>)>>
        ELSE o.status = "TIMEOUT" /\ o.err = NoErr /\ o.res.isNil}
MXConcTargetedOutcomes ==
    {o \in TargetedOutcomes : o.traced /\ (o.answered <=> o.status = "NOERROR")}
MXConcInit ==
    /\ MXInit
    /\ ~mxMod.IsIterative
    /\ mxMod.IPv6Lookup = (mxVariant = "legacy")
    /\ mxMod.MXCacheSize = MaxMXCacheSize
MXConcStart(p) == pc[p] = "idle" /\ MXLookupStartWith(p, MXConcOutcomes)
MXConcStep(p) ==
    \/ MXLoop(p)
    \/ MXGetLock(p)
    \/ MXGet(p)
    \/ MXGetUnlock(p)
    \/ MXTargetedWith(p, MXConcTargetedOutcomes)
    \/ MXUpLock(p)
    \/ MXUpsert(p)
    \/ MXUpUnlock(p)
MXConcNext == \E p \in Callers : MXConcStart(p) \/ MXConcStep(p)
MXConcSpec == MXConcInit /\ [][MXConcNext]_vars

\* The scheduler runs every runnable goroutine (weak fairness of each
\* caller's steps); sync.Mutex hands the lock to a waiter that has been
\* starved (strong fairness of the two Lock() calls).
MXConcFairSpec ==
    /\ MXConcSpec
    /\ \A p \in Callers :
          /\ WF_vars(MXConcStep(p))
          /\ SF_vars(MXGetLock(p))
          /\ SF_vars(MXUpLock(p))

\* Several callers sharing one MX module, each running one Lookup: the
\* first caller's primary result names two exchanges, the others' the first
\* exchange alone, so that entries of the MX cache are read again,
\* overwritten and evicted.  The first caller passes no name server, the
\* others pass one of their own.
MXSharedServers(p) == IF p = SeqCaller THEN {EmptyServer} ELSE {"s9"}
MXSharedOutcomes(p) ==
    {o \in MXPrimaryOutcomes :
        /\ o.status = "NOERROR" /\ o.err = NoErr /\ ~o.res.isNil
        /\ \A i \in 1..Len(o.res.Answers) : o.res.Answers[i].isPref
        /\ IF p = SeqCaller
           THEN /\ Len(o.res.Answers) = 2
                /\ o.res.Answers[2].Answer = ExchangeA \o <<Dot>>
           ELSE o.res.Answers = <<PrefAnswer(ExchangeA \o <<Dot>>)>>}
MXSharedInit ==
    /\ MXInit
    /\ ~mxMod.IsIterative
    /\ mxMod.IPv6Lookup = (mxVariant = "legacy")
MXSharedStart(p) ==
    pc[p] = "idle" /\ MXLookupStartOn(p, MXSharedOutcomes(p), MXSharedServers(p))
MXSharedNext == \E p \in Callers : MXSharedStart(p) \/ MXConcStep(p)
MXSharedSpec == MXSharedInit /\ [][MXSharedNext]_vars

\* ------------------------------------------------------------------------
\* Properties of the Resolver
\* ------------------------------------------------------------------------
Range(q) == {q[i] : i \in 1..Len(q)}

\* C1: once Close() has been called on a Resolver, every later
\* ExternalLookup, IterativeLookup or Lookup ends in a fatal failure and
\* returns nothing to its caller, with or without socket recycling.
C1_LookupAfterCloseIsFatal ==
    (lastCall.entry # "none" /\ lastCall.afterClose) => lastCall.fatal

BothCaches(c) == (~c.Cache.isNil) /\ c.CacheSize # 0

\* C2: InitResolver on a configuration with both a Cache and a non-zero
\* CacheSize returns (nil, error); with at most one of them and valid
\* transport and IP-version modes it does not fail for that reason.
C2_CacheAndCacheSizeRejected ==
    phase # "start" =>
        /\ BothCaches(config) =>
              (resolver.isNil /\ initErr # NoErr /\ phase = "failed")
        /\ ((~BothCaches(config))
              /\ config.TransportMode \in {"UDPOrTCP", "UDPOnly", "TCPOnly"}
              /\ config.IPVersionMode = "IPv4OrIPv6") =>
              /\ initErr \notin {"cannot use both cache and cacheSize",
                                 "invalid transport mode", "invalid ip version mode"}
              /\ (initErr = NoErr <=> ~resolver.isNil)

C2_Witness ==
    /\ phase = "failed" /\ BothCaches(config)
    /\ config.TransportMode = "UDPOrTCP" /\ config.IPVersionMode = "IPv4OrIPv6"
    /\ initErr = "cannot use both cache and cacheSize"

\* C3: whatever the lookup client returns, a non-nil error included, the
\* entry point hands the Status and the Trace of that lookup to its caller.
C3_StatusAndTraceReturned ==
    (lastCall.entry # "none" /\ ~lastCall.fatal) =>
        IF lastCall.entry = "Lookup"
        THEN /\ ~lastCall.ret.result.isNil
             /\ lastCall.ret.result.Status = lastCall.out.status
             /\ lastCall.ret.result.Trace = lastCall.out.trace
        ELSE /\ lastCall.ret.status = lastCall.out.status
             /\ lastCall.ret.trace = lastCall.out.trace

SuppliedLocalAddrs ==
    IF variant = "new" THEN Range(config.LocalAddrs) ELSE Range(config.LocalAddr)

\* C4: with local addresses supplied, the Resolver's local address is one
\* of them and the discovery dial is not performed; the dial is performed
\* only when none is supplied.
C4_LocalAddrFromConfig ==
    phase # "start" =>
        /\ SuppliedLocalAddrs # {} =>
              /\ ~fx.dialed
              /\ phase = "ready" => resolver.localAddr[1] \in SuppliedLocalAddrs
        /\ fx.dialed => SuppliedLocalAddrs = {}

\* C5: ExternalLookup makes exactly one non-iterative client call, against
\* dstServer when given and otherwise against a member of the external
\* name-server list; IterativeLookup makes exactly one iterative call
\* against a root server; what the call returns is returned unchanged.
C5_ExactlyOneClientCall ==
    /\ lastCall.entry = "ExternalLookup" =>
          /\ Len(lastCall.calls) = 1
          /\ ~lastCall.calls[1].iterative
          /\ lastCall.dst # EmptyServer => lastCall.calls[1].server = lastCall.dst
          /\ lastCall.dst = EmptyServer =>
                lastCall.calls[1].server \in Range(ListOf(resolver.externalNameServers))
          /\ ~lastCall.fatal => lastCall.ret = lastCall.out
    /\ lastCall.entry = "IterativeLookup" =>
          /\ Len(lastCall.calls) = 1
          /\ lastCall.calls[1].iterative
          /\ lastCall.calls[1].server \in Range(ListOf(resolver.rootNameServers))
          /\ ~lastCall.fatal => lastCall.ret = lastCall.out

\* C6: after a successful InitResolver the external name-server list is
\* never empty, so ExternalLookup with an empty dstServer never reaches
\* the fatal "no external name servers specified".
C6_ExternalServersNonEmpty ==
    (phase = "ready" /\ variant = "new") =>
        /\ Len(ListOf(resolver.externalNameServers)) > 0
        /\ ~(lastCall.entry = "ExternalLookup" /\ lastCall.fatal
             /\ lastCall.why = "no external name servers specified")

ResolverLists ==
    <<ListOf(resolver.externalNameServers), ListOf(resolver.rootNameServers),
      ListOf(resolver.nameServers)>>

\* C7: once InitResolver has returned, nothing changes the lists the
\* Resolver selects its servers from: no lookup, no Close, and no write by
\* the caller into the slice it put into the ResolverConfig.
C7_ServerListsNeverChange ==
    [][phase = "ready" => ResolverLists' = ResolverLists]_vars

\* ------------------------------------------------------------------------
\* Properties of the MX consumer
\* ------------------------------------------------------------------------
SecondaryFailed(e) == (~e.hit) /\ (e.tStatus # "NOERROR" \/ e.tNil)
SecondaryAnswered(e) == (~e.hit) /\ e.tStatus = "NOERROR" /\ ~e.tNil
PrimaryUsable(l) == l.primary.status = "NOERROR" /\ l.primary.err = NoErr
HasAddresses(a) == a.IPv4Addresses # <<>> \/ a.IPv6Addresses # <<>>

\* C8: a secondary lookup that returns a non-success Status or a nil
\* result does not fail the MX Lookup: it returns success, with a record
\* for that exchange whose address lists are empty and with the records of
\* the other exchanges as their own lookups gave them.
C8_SecondaryFailureKeepsPrimary ==
    \A p \in Callers :
        (pc[p] = "done" /\ PrimaryUsable(loc[p])) =>
            LET l == loc[p] IN
            /\ l.ret.status = "NOERROR" /\ l.ret.err = NoErr /\ ~l.ret.res.isNil
            /\ Len(l.ret.res.Servers) = Len(l.events)
            /\ \A i \in 1..Len(l.events) :
                  LET e == l.events[i]
                      s == l.ret.res.Servers[i]
                      fresh == IPResult(e.name, lookupIpv4Flag(mxVariant, mxMod),
                                        lookupIpv6Flag(mxVariant, mxMod))
                  IN
                  /\ s.Name = e.name
                  /\ SecondaryFailed(e) =>
                        (s.IPv4Addresses = <<>> /\ s.IPv6Addresses = <<>>)
                  /\ SecondaryAnswered(e) =>
                        /\ s.IPv4Addresses = fresh.IPv4Addresses
                        /\ s.IPv6Addresses = fresh.IPv6Addresses

C8_Witness ==
    /\ pc[SeqCaller] = "done" /\ PrimaryUsable(loc[SeqCaller])
    /\ ~loc[SeqCaller].ret.res.isNil
    /\ \E i, j \in 1..Len(loc[SeqCaller].events) :
          /\ SecondaryFailed(loc[SeqCaller].events[i])
          /\ loc[SeqCaller].events[i].tStatus = "TIMEOUT"
          /\ ~loc[SeqCaller].events[i].tNil
          /\ SecondaryAnswered(loc[SeqCaller].events[j])
          /\ HasAddresses(loc[SeqCaller].ret.res.Servers[j])

\* C9: when the primary MX query returns a non-success Status or an error,
\* Lookup returns a nil result with the primary's trace, status and error,
\* issues no secondary lookup and leaves the MX cache as it was.
C9_PrimaryFailureReturnsNil ==
    \A p \in Callers :
        (pc[p] \notin {"idle", "dead"} /\ ~PrimaryUsable(loc[p])) =>
            LET l == loc[p] IN
            /\ pc[p] = "done"
            /\ l.ret.res.isNil
            /\ l.ret.trace = l.primary.trace
            /\ l.ret.status = l.primary.status
            /\ l.ret.err = l.primary.err
            /\ l.events = <<>> /\ l.nTargeted = 0
            /\ CacheHash = l.cache0

C9_Witness ==
    /\ pc[SeqCaller] = "done"
    /\ loc[SeqCaller].primary.status = "TIMEOUT"
    /\ loc[SeqCaller].primary.err = NoErr
    /\ ~loc[SeqCaller].primary.res.isNil
    /\ loc[SeqCaller].ret.res.isNil
    /\ Len(CacheHash) > 0

\* C10: in sequential MX lookups, an exchange name present in the MX cache
\* costs no targeted lookup and yields the cached addresses with an empty
\* trace; a name not present costs exactly one targeted lookup and is in
\* the cache when lookupIPs returns.
C10_CacheShortCircuit ==
    \A p \in Callers :
        \A i \in 1..Len(loc[p].events) :
            LET e == loc[p].events[i]
                s == loc[p].servers[i]
            IN
            /\ e.wasCached =>
                  /\ e.hit /\ e.nTargeted = 0 /\ e.trace = <<>>
                  /\ s.IPv4Addresses = e.cachedVal.IPv4Addresses
                  /\ s.IPv6Addresses = e.cachedVal.IPv6Addresses
            /\ ~e.wasCached =>
                  /\ ~e.hit /\ e.nTargeted = 1 /\ e.cachedAtReturn

C10_Witness ==
    /\ pc[SeqCaller] = "done" /\ ~loc[SeqCaller].ret.res.isNil
    /\ Len(loc[SeqCaller].events) = 2
    /\ loc[SeqCaller].events[1].wasCached
    /\ ~loc[SeqCaller].events[2].wasCached
    /\ loc[SeqCaller].events[1].name # loc[SeqCaller].events[2].name
    /\ loc[SeqCaller].events[1].nTargeted + loc[SeqCaller].events[2].nTargeted = 1
    /\ HasAddresses(loc[SeqCaller].ret.res.Servers[1])
    /\ HasAddresses(loc[SeqCaller].ret.res.Servers[2])

\* ------------------------------------------------------------------------
\* Properties of the MX consumer under concurrent callers
\* ------------------------------------------------------------------------
ExchangeNames == {TrimSuffixDot(n) : n \in AnswerNames}
\* callers that are past their targeted lookup of n but have not yet
\* returned from lookupIPs
InFlight(p, n) ==
    pc[p] \in {"upLock", "upsert", "upUnlock"} /\ loc[p].name = n
\* the per-exchange lookups of n that have been entered
Entered(p, n) ==
    pc[p] \in {"getLock", "get", "getUnlock", "targeted",
               "upLock", "upsert", "upUnlock"} /\ loc[p].name = n
FreshBy(p, n) ==
    Cardinality({i \in 1..Len(loc[p].events) :
                    loc[p].events[i].name = n /\ loc[p].events[i].nTargeted > 0})
    + (IF InFlight(p, n) THEN 1 ELSE 0)
EnteredBy(p, n) ==
    Cardinality({i \in 1..Len(loc[p].events) : loc[p].events[i].name = n})
    + (IF Entered(p, n) THEN 1 ELSE 0)
RECURSIVE FreshUpTo(_, _)
FreshUpTo(k, n) == IF k = 0 THEN 0 ELSE FreshBy(k, n) + FreshUpTo(k - 1, n)
RECURSIVE EnteredUpTo(_, _)
EnteredUpTo(k, n) == IF k = 0 THEN 0 ELSE EnteredBy(k, n) + EnteredUpTo(k - 1, n)
\* the targeted lookups issued so far for the name n, over all callers
FreshLookups(n) == FreshUpTo(NumCallers, n)
EnteredLookups(n) == EnteredUpTo(NumCallers, n)

InsideCache == {"get", "getUnlock", "upsert", "upUnlock"}
MutexDiscipline ==
    /\ \A p \in Callers : pc[p] \in {"get", "upsert"} => CHmu = p
    /\ \A p, q \in Callers :
          (p # q) => ~(pc[p] \in InsideCache /\ pc[q] \in InsideCache)
    /\ \A p \in Callers : pc[p] = "targeted" => CHmu # p
    /\ CHmu # 0 => (CHmu \in Callers /\ pc[CHmu] \in InsideCache)
CacheOnlyUnderLock ==
    (CacheHash' # CacheHash) =>
        (CHmu \in Callers /\ pc[CHmu] \in {"get", "upsert"} /\ CHmu' = CHmu)

\* Each caller runs one Lookup, so "nobody waits for the mutex for ever and
\* no acquired lock stays held" is: from some point on the mutex is free
\* and nobody is waiting for it.
MutexQuiescent ==
    /\ CHmu = 0
    /\ \A p \in Callers : pc[p] \notin {"getLock", "upLock"}

\* C12: the MX cache is only read and written by the caller holding the
\* mutex, at most one caller is inside the cache at a time, the mutex is
\* not held during the targeted lookup, every acquired lock is released,
\* and no caller waits for the mutex for ever.
C12_MXCacheThreadSafe ==
    /\ []MutexDiscipline
    /\ [][CacheOnlyUnderLock]_vars
    /\ <>[]MutexQuiescent

\* one caller is writing the cache while another waits for the mutex
C12_Witness ==
    \E p, q \in Callers :
        /\ p # q
        /\ CHmu = p /\ pc[p] = "upsert"
        /\ pc[q] \in {"getLock", "upLock"}

\* ------------------------------------------------------------------------
\* The trace of an MX lookup
\* ------------------------------------------------------------------------
RECURSIVE SecondaryTraces(_, _)
\* the traces of the first k per-exchange lookups, in the order processed
SecondaryTraces(events, k) ==
    IF k = 0 THEN <<>> ELSE SecondaryTraces(events, k - 1) \o events[k].trace
\* the exchange names of the preference answers, in answer order
RECURSIVE ExchangeOrder(_)
ExchangeOrder(answers) ==
    IF answers = <<>> THEN <<>>
    ELSE (IF answers[1].isPref THEN <<TrimSuffixDot(answers[1].Answer)>> ELSE <<>>)
         \o ExchangeOrder(Tail(answers))

\* C13: the trace a successful MX Lookup returns is the primary query's
\* trace followed by the traces of the per-exchange lookups in the order
\* the exchange answers were processed; an exchange served from the cache
\* adds no step, one that was looked up adds the steps of its own lookup.
C13_TraceChronological ==
    \A p \in Callers :
        LET l == loc[p] IN
        /\ (pc[p] = "loop") =>
              l.trace = l.primary.trace \o SecondaryTraces(l.events, Len(l.events))
        /\ (pc[p] = "done" /\ ~l.ret.res.isNil) =>
              /\ l.ret.trace =
                    l.primary.trace \o SecondaryTraces(l.events, Len(l.events))
              /\ [i \in 1..Len(l.events) |-> l.events[i].name]
                    = ExchangeOrder(l.primary.res.Answers)
              /\ \A i \in 1..Len(l.events) :
                    /\ l.events[i].hit => l.events[i].trace = <<>>
                    /\ l.events[i].trace \in {<<>>, <<TargetedStep(l.events[i].name)>>}

\* a Lookup has returned after looking up two different exchanges, one
\* step each
C13_Witness ==
    LET l == loc[SeqCaller] IN
    /\ pc[SeqCaller] = "done" /\ ~l.ret.res.isNil
    /\ Len(l.events) = 2
    /\ l.events[1].name # l.events[2].name
    /\ ~l.events[1].hit /\ ~l.events[2].hit
    /\ l.ret.trace = <<MXStep, TargetedStep(l.events[1].name),
                       TargetedStep(l.events[2].name)>>

\* ------------------------------------------------------------------------
\* Construction: failure paths and the clients of a Resolver
\* ------------------------------------------------------------------------
ConfigInvalid(c) ==
    \/ c.TransportMode \notin {"UDPOrTCP", "UDPOnly", "TCPOnly"}
    \/ c.IPVersionMode # "IPv4OrIPv6"
    \/ BothCaches(c)

\* C19: InitResolver checks the configuration before it does anything
\* else and returns either a Resolver or an error, never both and never
\* neither; when the check fails nothing was dialed or bound and no cache
\* was created; when discovery of the local address or the UDP bind fails
\* the Resolver is nil and the error is not.
C19_ValidateFirstOneResult ==
    phase # "start" =>
        /\ resolver.isNil <=> initErr # NoErr
        /\ (phase = "failed") <=> resolver.isNil
        /\ ConfigInvalid(config) =>
              /\ resolver.isNil /\ initErr # NoErr
              /\ ~fx.dialed /\ ~fx.listened /\ fx.probeConn = "none"
              /\ fx.cachesCreated = 0
        /\ (~ConfigInvalid(config)) =>
              /\ resolver.isNil =>
                    /\ fx.dialed \/ fx.listened
                    /\ initErr \in {"unable to find default IP address to open socket",
                                     "unable to create UDP connection"}
              /\ (fx.listened /\ ~resolver.isNil) => ~resolver.conn.isNil

\* each failing path has been taken: here the bind failed after the probe
\* dial succeeded
C19_Witness ==
    /\ phase = "failed" /\ ~ConfigInvalid(config)
    /\ initErr = "unable to create UDP connection"
    /\ fx.dialed /\ fx.listened /\ resolver.isNil

\* C20: a constructed Resolver has a UDP client exactly when its transport
\* mode is UDP-only or UDP with TCP fallback, and a TCP client exactly
\* when it is TCP-only or UDP with TCP fallback; it has at least one.
C20_ClientsMatchTransportMode ==
    phase = "ready" =>
        /\ resolver.transportMode = config.TransportMode
        /\ resolver.udpClient <=> config.TransportMode \in {"UDPOnly", "UDPOrTCP"}
        /\ resolver.tcpClient <=> config.TransportMode \in {"TCPOnly", "UDPOrTCP"}
        /\ resolver.udpClient \/ resolver.tcpClient

C20_Witness ==
    /\ phase = "ready" /\ config.TransportMode = "UDPOrTCP"
    /\ resolver.udpClient /\ resolver.tcpClient

\* ------------------------------------------------------------------------
\* Properties of the resolution engine
\* ------------------------------------------------------------------------
\* C14: an iterative walk issues at most maxDepth Query steps, the steps
\* spent on resolving NS names and on following CNAMEs included; a walk
\* that is still without an answer when the budget is used up ends with
\* Status iteration-limit-exceeded, and no walk ends so earlier.
C14_DepthBounded ==
    /\ it.steps <= config.MaxDepth
    /\ it.depth <= it.steps
    /\ (it.status = "ITERATION_LIMIT") =>
          (it.pc = "done" /\ it.steps = config.MaxDepth)
    /\ (it.pc = "done" /\ it.steps = config.MaxDepth
          /\ it.last \in {"referral", "cname"}) =>
          it.status = "ITERATION_LIMIT"

\* a walk of the largest configured depth has resolved an NS name, followed
\* a CNAME and run out of budget
C14_Witness ==
    /\ it.pc = "done" /\ it.status = "ITERATION_LIMIT"
    /\ config.MaxDepth = MaxWalkDepth /\ it.steps = MaxWalkDepth
    /\ it.sawNS /\ it.sawCname

Timeouts(log) == Cardinality({i \in 1..Len(log) : log[i].out = "timeout"})

\* C15: a query whose attempts all time out makes exactly retries + 1
\* attempts and then returns Status timeout; no query has more than
\* retries + 1 timed-out attempts, and Status timeout is not returned
\* after fewer.
C15_RetryBudget ==
    /\ Timeouts(tq.log) <= config.Retries + 1
    /\ (tq.status = "TIMEOUT") =>
          (tq.pc = "done" /\ Timeouts(tq.log) = config.Retries + 1)
    /\ (Timeouts(tq.log) = config.Retries + 1) =>
          (tq.pc = "done" /\ tq.status = "TIMEOUT")
    /\ (tq.pc = "done" /\ Len(tq.log) > 0
          /\ \A i \in 1..Len(tq.log) : tq.log[i].out = "timeout") =>
          (Len(tq.log) = config.Retries + 1 /\ tq.status = "TIMEOUT")

C15_Witness ==
    /\ tq.pc = "done" /\ tq.status = "TIMEOUT"
    /\ config.Retries = MaxRetries
    /\ Len(tq.log) = MaxRetries + 1
    /\ \A i \in 1..Len(tq.log) : tq.log[i].out = "timeout"

\* C16: with UDP and TCP allowed, every truncated UDP response is followed
\* by one TCP attempt for the same question at the same server before the
\* query ends, and TCP is used for nothing else; with UDP only there is no
\* TCP attempt.
C16_TruncatedFallsBackToTCP ==
    /\ \A i \in 1..Len(tq.log) :
          (tq.log[i].proto = "udp" /\ tq.log[i].out = "truncated") =>
              IF config.TransportMode = "UDPOrTCP"
              THEN IF i = Len(tq.log)
                   THEN tq.pc = "tcp" /\ proc = "running"
                   ELSE /\ tq.log[i + 1].proto = "tcp"
                        /\ tq.log[i + 1].q = tq.log[i].q
                        /\ tq.log[i + 1].server = tq.log[i].server
              ELSE /\ config.TransportMode = "UDPOnly"
                   /\ i = Len(tq.log) /\ tq.pc = "done"
    /\ \A i \in 1..Len(tq.log) :
          (tq.log[i].proto = "tcp" /\ config.TransportMode # "TCPOnly") =>
              /\ config.TransportMode = "UDPOrTCP"
              /\ i > 1
              /\ tq.log[i - 1].proto = "udp" /\ tq.log[i - 1].out = "truncated"
    /\ (tq.pc = "done" /\ config.TransportMode = "UDPOrTCP") =>
          tq.status # "TRUNCATED"

C16_Witness ==
    /\ tq.pc = "done" /\ tq.status = "NOERROR"
    /\ config.TransportMode = "UDPOrTCP"
    /\ Len(tq.log) = 2
    /\ tq.log[1].proto = "udp" /\ tq.log[1].out = "truncated"
    /\ tq.log[2].proto = "tcp" /\ tq.log[2].out = "answer"

C18_BlacklistedNeverDialed ==
    /\ \A i \in 1..Len(tq.log) : tq.log[i].server \notin blocked
    /\ (tq.pc # "idle" /\ tq.server \in blocked /\ ~tq.fromCache) =>
          /\ tq.pc = "done" /\ tq.status = "BLACKLISTED"
          /\ Len(tq.log) = 0 /\ tq.lookups = 0
    /\ (it.pc = "done" /\ it.last = "failure" /\ tq.status = "BLACKLISTED") =>
          it.status = "BLACKLISTED"
    /\ (it.pc = "done"
          /\ \A i \in 1..Len(RootServers) : RootServers[i] \in blocked) =>
          (it.status = "BLACKLISTED" /\ it.dialed = 0 /\ it.steps = 1)

\* a walk was referred by an allowed root server to a blacklisted one
C18_Witness ==
    /\ it.pc = "done" /\ it.status = "BLACKLISTED"
    /\ it.steps = 2 /\ it.dialed >= 1
    /\ tq.server \in blocked /\ Len(tq.log) = 0

\* ------------------------------------------------------------------------
\* The sockets of a Resolver
\* ------------------------------------------------------------------------
RecycledSocketState ==
    phase = "ready" =>
        /\ (~resolver.conn.isNil) <=> config.ShouldRecycleSockets
        /\ resolver.shouldRecycleSockets = config.ShouldRecycleSockets
        /\ (~resolver.conn.isNil) =>
              /\ fx.listened
              /\ resolver.conn.addr = resolver.localAddr
              /\ (resolver.conn.state = "closed") <=> closed
              /\ resolver.conn.closeErrLogged => closed
        /\ resolver.conn.isNil => ~fx.listened
\* a step in which Close() was called and changed anything
CloseStep ==
    /\ phase = "ready" /\ phase' = "ready"
    /\ closed' # closed \/ resolver' # resolver
CloseEffect ==
    CloseStep =>
        /\ proc' = proc /\ closed'
        /\ resolver.conn.isNil => resolver' = resolver
        /\ (~resolver.conn.isNil) =>
              /\ resolver'.conn.state = "closed"
              /\ resolver' = [resolver EXCEPT !.conn = resolver'.conn]

\* C21: a constructed Resolver has a UDP socket exactly when socket
\* recycling is enabled, bound to the Resolver's local address; Close()
\* closes it; without recycling Close() changes nothing; and no call of
\* Close(), the first or a later one, ends the process.
C21_RecycledSocketLifecycle ==
    /\ []RecycledSocketState
    /\ [][CloseEffect]_vars

\* Close() has been called again on a Resolver whose socket was closed
C21_Witness ==
    /\ phase = "ready" /\ closed /\ proc = "running"
    /\ config.ShouldRecycleSockets
    /\ resolver.conn.state = "closed" /\ resolver.conn.closeErrLogged

\* C22: when InitResolver has returned, with a Resolver or with an error,
\* the connection dialed to find the local address is closed if it was
\* ever opened; the Resolver's socket, if it has one, is the one bound
\* with ListenUDP, never the probe.
C22_ProbeConnectionClosed ==
    phase # "start" =>
        /\ fx.probeConn # "open"
        /\ (fx.probeConn = "closed") <=>
              (fx.dialed /\ initErr # "unable to find default IP address to open socket")
        /\ (~resolver.isNil) =>
              /\ (~resolver.conn.isNil) => resolver.conn.from = "ListenUDP"
              /\ resolver.localAddr # <<>>
        /\ (phase = "ready" /\ variant = "new") => fx.probeConn = "closed"

\* the probe succeeded and was closed, and then the UDP bind failed
C22_Witness ==
    /\ phase = "failed" /\ resolver.isNil
    /\ initErr = "unable to create UDP connection"
    /\ fx.dialed /\ fx.probeConn = "closed"

\* ------------------------------------------------------------------------
\* The cache of a Resolver
\* ------------------------------------------------------------------------
\* C23: the cache of a constructed Resolver is a fresh one of capacity
\* CacheSize when CacheSize is not zero, else the configured Cache itself
\* when there is one, else a fresh one of capacity 10000; the
\* configuration NewResolverConfig() returns passes validation as it is
\* and fails it once CacheSize is set while its Cache is still there.
C23_CacheChoice ==
    phase # "start" =>
        /\ (phase = "ready") =>
              /\ resolver.cache =
                    IF config.CacheSize # 0
                    THEN [isNil |-> FALSE, id |-> "fresh", cap |-> config.CacheSize]
                    ELSE IF ~config.Cache.isNil THEN config.Cache
                    ELSE [isNil |-> FALSE, id |-> "fresh", cap |-> 10000]
              /\ fx.cachesCreated =
                    IF config.CacheSize # 0 \/ config.Cache.isNil THEN 1 ELSE 0
        /\ (config = NewResolverConfig) =>
              initErr \in {NoErr, "unable to find default IP address to open socket",
                          "unable to create UDP connection"}
        /\ (config.CacheSize # 0
              /\ config = [NewResolverConfig EXCEPT !.CacheSize = config.CacheSize]) =>
              (phase = "failed" /\ initErr = "cannot use both cache and cacheSize")

\* a Resolver built from the unchanged NewResolverConfig() uses the
\* configuration's own cache
C23_Witness ==
    /\ phase = "ready" /\ config = NewResolverConfig
    /\ resolver.cache = NewResolverConfig.Cache
    /\ fx.cachesCreated = 0

\* ------------------------------------------------------------------------
\* Failed per-exchange lookups in the MX cache
\* ------------------------------------------------------------------------
\* the MX cache c holds the empty address set for the name n
EmptyCached(c, n) ==
    CacheHashHas(c, n) /\ c[CacheHashIndex(c, n)].v = NoAddresses
\* the step in which caller p reads the cache / writes its result
ReadsCache(p) == pc[p] = "get" /\ pc'[p] = "getUnlock"
WritesCache(p) == pc[p] = "upsert" /\ pc'[p] = "upUnlock"
\* a failed per-exchange lookup leaves the empty address set in the cache
FailureStored ==
    \A p \in Callers :
        (WritesCache(p) /\ loc[p].tStatus # "NOERROR") =>
            EmptyCached(CacheHash', loc[p].name)
\* a read is decided by the name alone: it finds exactly what the cache
\* holds for the name, and a read that found something costs no lookup
ReadByName ==
    \A p \in Callers :
        ReadsCache(p) =>
            /\ loc'[p].found = CacheHashHas(CacheHash, loc[p].name)
            /\ loc'[p].found =>
                  loc'[p].ips = CacheHash[CacheHashIndex(CacheHash, loc[p].name)].v
HitsCostNothing ==
    \A p \in Callers :
        \A i \in 1..Len(loc[p].events) :
            LET e == loc[p].events[i] IN
            e.found =>
                /\ e.hit /\ e.nTargeted = 0 /\ e.trace = <<>>
                /\ loc[p].servers[i].IPv4Addresses = e.ips.IPv4Addresses
                /\ loc[p].servers[i].IPv6Addresses = e.ips.IPv6Addresses
\* the entry of n is pushed out by the write of another name into a full cache
Evicts(n) ==
    \E p \in Callers :
        /\ WritesCache(p) /\ loc[p].name # n
        /\ ~CacheHashHas(CacheHash, loc[p].name)
        /\ Len(CacheHash) >= mxMod.MXCacheSize
        /\ ~CacheHashHas(CacheHash', n)
\* the entry of n is replaced by a caller whose own read of n had missed
\* and whose targeted lookup succeeded
Overwrites(n) ==
    \E p \in Callers :
        /\ WritesCache(p) /\ loc[p].name = n
        /\ ~loc[p].found /\ loc[p].tStatus = "NOERROR"
        /\ CacheHashHas(CacheHash', n)
EmptyUntilEvicted ==
    \A n \in ExchangeNames :
        EmptyCached(CacheHash, n) => (EmptyCached(CacheHash', n) \/ Evicts(n))
EmptyUntilEvictedOrOverwritten ==
    \A n \in ExchangeNames :
        EmptyCached(CacheHash, n) =>
            (EmptyCached(CacheHash', n) \/ Evicts(n) \/ Overwrites(n))

RECURSIVE PrefAnswers(_)
\* the preference-bearing answers of a primary result, in answer order
PrefAnswers(answers) ==
    IF answers = <<>> THEN <<>>
    ELSE (IF answers[1].isPref THEN <<answers[1]>> ELSE <<>>)
         \o PrefAnswers(Tail(answers))

\* C25: a successful MX Lookup returns one exchange record per
\* preference-bearing answer of the primary result, in answer order, each
\* with that answer's preference, TTL, type and class and the exchange name
\* without its trailing dot; the other answers give no record and no
\* secondary lookup; and the Status is success with a nil error even when
\* there is no record at all.
C25_OneRecordPerPrefAnswer ==
    \A p \in Callers :
        (pc[p] = "done" /\ loc[p].primary.status = "NOERROR"
                         /\ loc[p].primary.err = NoErr) =>
            LET l == loc[p]
                prefs == PrefAnswers(l.primary.res.Answers)
                recs == l.ret.res.Servers
            IN
            /\ ~l.ret.res.isNil
            /\ l.ret.status = "NOERROR" /\ l.ret.err = NoErr
            /\ Len(recs) = Len(prefs)
            /\ Len(l.events) = Len(prefs)
            /\ \A i \in 1..Len(prefs) :
                  /\ recs[i].Preference = prefs[i].Preference
                  /\ recs[i].TTL = prefs[i].TTL
                  /\ recs[i].Type = prefs[i].Type
                  /\ recs[i].Class = prefs[i].Class
                  /\ recs[i].Name \o <<Dot>> = prefs[i].Answer
                  /\ l.events[i].name = recs[i].Name

\* a Lookup has returned the record of the one exchange that its primary
\* result names after an answer without a preference
C25_Witness ==
    LET l == loc[SeqCaller] IN
    /\ pc[SeqCaller] = "done" /\ ~l.ret.res.isNil
    /\ l.primary.res.Answers = <<PlainAnswer, PrefAnswer(ExchangeB \o <<Dot>>)>>
    /\ Len(l.ret.res.Servers) = 1
    /\ l.ret.res.Servers[1].Name = ExchangeB
    /\ l.ret.res.Servers[1].Preference = PrefAnswer(ExchangeB \o <<Dot>>).Preference
    /\ l.ret.res.Servers[1].TTL = PrefAnswer(ExchangeB \o <<Dot>>).TTL
    /\ Len(l.events) = 1
====
